---- MODULE Spec2Model ----
(***************************************************************************)
(* A model of the azuredevops build definition resource                    *)
(* (src/azuredevops/resource_build_definition.go): the ResourceData record *)
(* the four lifecycle callbacks receive, the translation between that      *)
(* record and build.BuildDefinition (expandBuildDefinition,                *)
(* flattenBuildDefinition, flattenRepository, flattenVariableGroups) and   *)
(* the callbacks themselves, run against a remote build-definition API     *)
(* whose calls may fail.                                                   *)
(*                                                                         *)
(* Representation.                                                          *)
(*   - A Go string that the code only copies, compares or concatenates is  *)
(*     a TLA+ string.  A Go string that the code inspects character by     *)
(*     character (the resource identifier, through strconv.Itoa/Atoi, and  *)
(*     repo_type, through strings.EqualFold) is a sequence of one-letter   *)
(*     strings.                                                             *)
(*   - A Go pointer that may be nil (Id, Revision: pointers to int) is a   *)
(*     sequence of length 0 (nil) or 1.                                    *)
(*   - A Go error is a record: isErr, the message the caller sees (msg)    *)
(*     and the message of the innermost error (cause).                     *)
(*   - A schema.Set is a TLA+ set.                                          *)
(***************************************************************************)
EXTENDS Integers, Sequences, FiniteSets, TLC

VARIABLES
    d,        \* the *schema.ResourceData of the resource instance
    server,   \* the build definitions the remote API holds
    nextId,   \* the identifier the remote API gives the next definition
    lastOp,   \* the step taken last
    pre,      \* d as the callback taken last received it
    calls,    \* the remote calls the callback taken last issued, in order
    parsed,   \* how often that callback parsed the resource identifier
    result,   \* the error that callback returned (NoErr: nil)
    probe     \* the pure translation under test (specification SpecPure)

vars == <<d, server, nextId, lastOp, pre, calls, parsed, result, probe>>

(***************************************************************************)
(* Bounds of the model.                                                    *)
(***************************************************************************)
\* identifiers the remote API hands out: FirstId .. FirstId + MaxCreated - 1
FirstId == 9
MaxCreated == 2
\* the remote API stops accepting updates of a definition at this revision
MaxRev == 2
\* the largest variable group id a plan names
MaxGroup == 2

(***************************************************************************)
(* Errors.                                                                 *)
(***************************************************************************)
NoErr == [isErr |-> FALSE, msg |-> "", cause |-> ""]

\* errors.New / an error made by a callee: the message is the cause
Error(m) == [isErr |-> TRUE, msg |-> m, cause |-> m]

\* fmt.Errorf(prefix + "%+v", err)
Errorf(prefix, err) == [isErr |-> TRUE, msg |-> prefix \o err.msg, cause |-> err.cause]

ErrCreating == "Error creating resource Build Definition: "
ErrNoRepository == "Unexpectedly did not find repository metadata in the resource data"
ErrAtoi == "strconv.Atoi: parsing: invalid syntax"

\* the error a failed remote call returns
RemoteError(api) == Error("remote API: " \o api \o " failed")

(***************************************************************************)
(* strconv.Itoa and strconv.Atoi on the decimal digits.                    *)
(***************************************************************************)
Digits == <<"0", "1", "2", "3", "4", "5", "6", "7", "8", "9">>

DigitChar(n) == Digits[n + 1]

IsDigit(c) == \E i \in 1..10 : Digits[i] = c

DigitVal(c) == (CHOOSE i \in 1..10 : Digits[i] = c) - 1

RECURSIVE ItoaNat(_)
ItoaNat(n) == IF n < 10 THEN <<DigitChar(n)>>
              ELSE Append(ItoaNat(n \div 10), DigitChar(n % 10))

Itoa(n) == IF n < 0 THEN <<"-">> \o ItoaNat(0 - n) ELSE ItoaNat(n)

RECURSIVE AtoiNat(_)
AtoiNat(s) == IF s = <<>> THEN 0
              ELSE 10 * AtoiNat(SubSeq(s, 1, Len(s) - 1)) + DigitVal(s[Len(s)])

\* strconv.Atoi: an optional sign, then at least one digit and digits only
Atoi(s) ==
    LET signed == s # <<>> /\ s[1] \in {"+", "-"}
        body == IF signed THEN Tail(s) ELSE s
    IN  IF body = <<>> \/ \E i \in 1..Len(body) : ~IsDigit(body[i])
        THEN [val |-> 0, err |-> Error(ErrAtoi)]
        ELSE [val |-> IF signed /\ s[1] = "-" THEN 0 - AtoiNat(body) ELSE AtoiNat(body),
              err |-> NoErr]

(***************************************************************************)
(* strings.EqualFold on the letters a plan can spell repo_type with.       *)
(***************************************************************************)
Upper == <<"A", "B", "C", "D", "E", "F", "G", "H", "I", "J", "K", "L", "M",
           "N", "O", "P", "Q", "R", "S", "T", "U", "V", "W", "X", "Y", "Z">>
Lower == <<"a", "b", "c", "d", "e", "f", "g", "h", "i", "j", "k", "l", "m",
           "n", "o", "p", "q", "r", "s", "t", "u", "v", "w", "x", "y", "z">>

\* the simple case fold of one letter
Fold(c) == IF \E i \in 1..26 : Upper[i] = c
           THEN Lower[CHOOSE i \in 1..26 : Upper[i] = c]
           ELSE c

\* a variant that compares case-sensitively (s == t)
EqualFoldExact(s, t) == s = t

EqualFold(s, t) == /\ Len(s) = Len(t)
                   /\ \A i \in 1..Len(s) : Fold(s[i]) = Fold(t[i])

github == <<"g", "i", "t", "h", "u", "b">>

(***************************************************************************)
(* The values a ResourceData holds.                                        *)
(***************************************************************************)
GitHub == <<"G", "i", "t", "H", "u", "b">>
TfsGit == <<"T", "f", "s", "G", "i", "t">>

\* repo_type as the schema admits it (StringInSlice, case-sensitive)
SchemaRepoTypes == {GitHub, TfsGit}

\* repo_type as expandBuildDefinition can be handed it
RepoTypes == SchemaRepoTypes \cup
             {github,
              <<"G", "I", "T", "H", "U", "B">>,
              <<"g", "i", "t", "H", "U", "b">>,
              <<"G", "i", "t">>,
              <<"G", "i", "t", "H", "u", "b", "s">>,
              <<"t", "f", "s", "g", "i", "t">>}

DefaultPool == "Hosted Ubuntu 1604"

Repository(yml, name, type, branch, conn) ==
    [yml_path |-> yml, repo_name |-> name, repo_type |-> type,
     branch_name |-> branch, service_connection_id |-> conn]

RepoGitHub == Repository("ci.yml", "org/repo", GitHub, "master", "")
RepoTfsGit == Repository("azure-pipelines.yml", "project-repo", TfsGit, "develop", "svc-1")

\* the repository blocks of a plan: none, one, or (against the schema's
\* MaxItems, which expandBuildDefinition checks again) two
PlanRepositories == {{}, {RepoGitHub}, {RepoTfsGit}, {RepoGitHub, RepoTfsGit}}

PlanScalars == {[name |-> "", path |-> "\\", agent_pool_name |-> DefaultPool],
                [name |-> "ci-build", path |-> "\\team", agent_pool_name |-> "Hosted VS2017"]}

\* variable_groups of a plan: unset, one group, or all of them
PlanGroups == {{}, 1..MaxGroup} \cup {{g} : g \in 1..MaxGroup}

ProjectID == "project-1"

NewData == [id |-> <<>>, project_id |-> ProjectID, name |-> "", path |-> "\\",
            agent_pool_name |-> DefaultPool, revision |-> 0,
            repository |-> {RepoGitHub}, variable_groups |-> {}]

(***************************************************************************)
(* expandBuildDefinition: ResourceData -> (BuildDefinition, project, err)  *)
(***************************************************************************)
NoDefinition == <<>>

buildVariableGroup(id) == [Id |-> id]

\* a variant that accepts more than one repository block (len < 1)
RepositoryCountBadAtLeastOne(repositories) == Cardinality(repositories) < 1

\* the check of line 289: TRUE when expand must fail
RepositoryCountBad(repositories) == Cardinality(repositories) # 1

RepoURL(repoType, repoName) ==
    IF EqualFold(repoType, github)
    THEN "https://github.com/" \o repoName \o ".git"
    ELSE ""

\* a variant that sends no variable groups
ExpandVariableGroupsNone(groups) == {}

\* lines 281-286; the list is kept as a set: both ends of it are schema.Sets
ExpandVariableGroups(groups) == {buildVariableGroup(g) : g \in groups}

expandBuildDefinition(dd) ==
    IF RepositoryCountBad(dd.repository)
    THEN [def |-> NoDefinition, project |-> "", err |-> Error(ErrNoRepository)]
    ELSE LET repository == CHOOSE r \in dd.repository : TRUE
             repoName == repository.repo_name
             repoType == repository.repo_type
             id == Atoi(dd.id)
             buildDefinition ==
                 [Id |-> IF id.err.isErr THEN <<>> ELSE <<id.val>>,
                  Name |-> dd.name,
                  Path |-> dd.path,
                  Revision |-> <<dd.revision>>,
                  Repository |->
                      [Url |-> RepoURL(repoType, repoName),
                       Id |-> repoName,
                       Name |-> repoName,
                       DefaultBranch |-> repository.branch_name,
                       Type |-> repoType,
                       Properties |-> [connectedServiceId |-> repository.service_connection_id]],
                  Process |-> [kind |-> "YamlProcess", YamlFilename |-> repository.yml_path],
                  Queue |-> [Name |-> dd.agent_pool_name,
                             Pool |-> [Name |-> dd.agent_pool_name]],
                  QueueStatus |-> "enabled",
                  Type |-> "build",
                  Quality |-> "definition",
                  VariableGroups |-> ExpandVariableGroups(dd.variable_groups)]
         IN  [def |-> <<buildDefinition>>, project |-> dd.project_id, err |-> NoErr]

(***************************************************************************)
(* flattenBuildDefinition: BuildDefinition -> ResourceData                 *)
(***************************************************************************)
\* a variant that probes the process for the typed value only
YamlFilePathTypedOnly(process) ==
    IF process.kind = "YamlProcess" THEN process.YamlFilename ELSE ""

\* lines 255-266: the process is a generic map (as the JSON decoder leaves
\* it) or a *build.YamlProcess; any other process leaves the path empty.
\* The maps of the model hold the key yamlFilename with a string (without
\* it the type assertion of line 261 panics).
YamlFilePath(process) ==
    LET fromMap == IF process.kind = "map" THEN process.entries["yamlFilename"] ELSE ""
    IN  IF process.kind = "YamlProcess" THEN process.YamlFilename ELSE fromMap

\* a variant that reads the branch from the repository's name
flattenRepositoryBranchFromName(buildDefinition) ==
    {[yml_path |-> YamlFilePath(buildDefinition.Process),
      repo_name |-> buildDefinition.Repository.Name,
      repo_type |-> buildDefinition.Repository.Type,
      branch_name |-> buildDefinition.Repository.Name,
      service_connection_id |->
          IF "connectedServiceId" \in DOMAIN buildDefinition.Repository.Properties
          THEN buildDefinition.Repository.Properties["connectedServiceId"]
          ELSE ""]}

flattenRepository(buildDefinition) ==
    {[yml_path |-> YamlFilePath(buildDefinition.Process),
      repo_name |-> buildDefinition.Repository.Name,
      repo_type |-> buildDefinition.Repository.Type,
      branch_name |-> buildDefinition.Repository.DefaultBranch,
      service_connection_id |->
          IF "connectedServiceId" \in DOMAIN buildDefinition.Repository.Properties
          THEN buildDefinition.Repository.Properties["connectedServiceId"]
          ELSE ""]}

flattenVariableGroups(buildDefinition) ==
    {variableGroup.Id : variableGroup \in buildDefinition.VariableGroups}

\* line 140: d.SetId(strconv.Itoa(*buildDefinition.Id))
FlattenId(dd, buildDefinition) == Itoa(buildDefinition.Id[1])

\* Every d.Set is handed a value of the attribute's schema type (a string, an
\* int, a list of one map of strings, a list of ints), so none returns an
\* error: the "Error flattening" returns of the callbacks are not taken.
flattenBuildDefinition(dd, buildDefinition, projectID) ==
    [id |-> FlattenId(dd, buildDefinition),
     project_id |-> projectID,
     name |-> buildDefinition.Name,
     path |-> buildDefinition.Path,
     agent_pool_name |-> buildDefinition.Queue.Pool.Name,
     revision |-> IF buildDefinition.Revision # <<>> THEN buildDefinition.Revision[1] ELSE 0,
     repository |-> flattenRepository(buildDefinition),
     variable_groups |-> flattenVariableGroups(buildDefinition)]

(***************************************************************************)
(* The remote build-definition API (clients.BuildClient).  It keeps the    *)
(* definitions it was sent, gives each a fresh identifier and a revision,  *)
(* and any call may fail.  A definition it returns carries its process as  *)
(* a generic map or as a typed YAML process.                               *)
(***************************************************************************)
ServerStore(definition, id, revision) ==
    [definition EXCEPT !.Id = <<id>>, !.Revision = <<revision>>]

ProcessShapes(filename) ==
    {[kind |-> "YamlProcess", YamlFilename |-> filename],
     [kind |-> "map", entries |-> [yamlFilename |-> filename]]}

\* what the API may return for a stored definition
Responses(stored) ==
    {[stored EXCEPT !.Process = p, !.Revision = r] :
        p \in ProcessShapes(stored.Process.YamlFilename),
        r \in {stored.Revision, <<>>}}

Call(api, project, definitionId, definition, ok) ==
    [api |-> api, Project |-> project, DefinitionId |-> definitionId,
     Definition |-> definition, ok |-> ok]

\* what a callback leaves behind: the ResourceData, the API's state, the
\* calls it issued, how often it parsed the identifier, and its return value
Outcome(dd, srv, nid, issued, nparsed, err) ==
    [d |-> dd, server |-> srv, nextId |-> nid, calls |-> issued,
     parsed |-> nparsed, result |-> err]

\* tfhelper.ParseProjectIDAndResourceID: project_id, and d.Id() as an integer
ParseProjectIDAndResourceID(dd) ==
    LET id == Atoi(dd.id)
    IN  [projectID |-> dd.project_id, id |-> id.val, err |-> id.err]

(***************************************************************************)
(* resourceBuildDefinitionRead                                             *)
(***************************************************************************)
resourceBuildDefinitionRead(dd, srv, nid) ==
    LET p == ParseProjectIDAndResourceID(dd)
        get(ok) == Call("GetDefinition", p.projectID, <<p.id>>, NoDefinition, ok)
    IN  IF p.err.isErr
        THEN {Outcome(dd, srv, nid, <<>>, 1, p.err)}
        ELSE {Outcome(dd, srv, nid, <<get(FALSE)>>, 1, RemoteError("GetDefinition"))}
             \cup
             {Outcome(flattenBuildDefinition(dd, r, p.projectID), srv, nid,
                      <<get(TRUE)>>, 1, NoErr) :
                 r \in UNION {Responses(s) : s \in {x \in srv : x.Id = <<p.id>>}}}

(***************************************************************************)
(* resourceBuildDefinitionCreate                                           *)
(***************************************************************************)
\* a variant that returns the error as it is
CreateErrorBare(err) == err

\* lines 124 and 129
CreateError(err) == Errorf(ErrCreating, err)

\* a variant that returns nil without reading the definition back
CreateReadBackNone(dd, srv, nid) == {Outcome(dd, srv, nid, <<>>, 0, NoErr)}

\* line 136: return resourceBuildDefinitionRead(d, meta)
CreateReadBack(dd, srv, nid) == resourceBuildDefinitionRead(dd, srv, nid)

resourceBuildDefinitionCreate(dd, srv, nid) ==
    LET ex == expandBuildDefinition(dd)
        create(ok) == Call("CreateDefinition", ex.project, <<>>, ex.def, ok)
        stored == ServerStore(ex.def[1], nid, 1)
    IN  IF ex.err.isErr
        THEN {Outcome(dd, srv, nid, <<>>, 0, CreateError(ex.err))}
        ELSE {Outcome(dd, srv, nid, <<create(FALSE)>>, 0,
                      CreateError(RemoteError("CreateDefinition")))}
             \cup
             {[o EXCEPT !.calls = <<create(TRUE)>> \o o.calls] :
                 o \in UNION {CreateReadBack(flattenBuildDefinition(dd, r, ex.project),
                                             srv \cup {stored}, nid + 1) :
                              r \in IF nid < FirstId + MaxCreated
                                    THEN Responses(stored) ELSE {}}}

(***************************************************************************)
(* resourceBuildDefinitionUpdate                                           *)
(***************************************************************************)
resourceBuildDefinitionUpdate(dd, srv, nid) ==
    LET ex == expandBuildDefinition(dd)
        update(ok) == Call("UpdateDefinition", ex.project, ex.def[1].Id, ex.def, ok)
        \* the definitions the API can update: the one with the identifier sent
        targets == {s \in srv : s.Id = ex.def[1].Id /\ s.Revision[1] < MaxRev}
    IN  IF ex.err.isErr
        THEN {Outcome(dd, srv, nid, <<>>, 0, ex.err)}
        ELSE {Outcome(dd, srv, nid, <<update(FALSE)>>, 0, RemoteError("UpdateDefinition"))}
             \cup
             UNION {LET stored == ServerStore(ex.def[1], s.Id[1], s.Revision[1] + 1)
                    IN  {Outcome(flattenBuildDefinition(dd, r, ex.project),
                                 (srv \ {s}) \cup {stored}, nid,
                                 <<update(TRUE)>>, 0, NoErr) :
                            r \in Responses(stored)} :
                    s \in targets}

(***************************************************************************)
(* resourceBuildDefinitionDelete                                           *)
(***************************************************************************)
\* a variant without the short-circuit on an empty identifier
DeleteIsNoOpNever(dd) == FALSE

\* line 212: d.Id() == ""
DeleteIsNoOp(dd) == dd.id = <<>>

\* a variant that clears the identifier once the definition is deleted
DeleteDataCleared(dd) == [dd EXCEPT !.id = <<>>]

\* lines 211-228 hold no d.Set and no d.SetId: Delete leaves the record alone
DeleteData(dd) == dd

\* a variant that swallows the error of the remote call
DeleteReturnNil(err) == NoErr

\* line 227: return err
DeleteReturn(err) == err

resourceBuildDefinitionDelete(dd, srv, nid) ==
    LET p == ParseProjectIDAndResourceID(dd)
        delete(ok) == Call("DeleteDefinition", p.projectID, <<p.id>>, NoDefinition, ok)
    IN  IF DeleteIsNoOp(dd)
        THEN {Outcome(dd, srv, nid, <<>>, 0, NoErr)}
        ELSE IF p.err.isErr
        THEN {Outcome(dd, srv, nid, <<>>, 1, p.err)}
        ELSE {Outcome(dd, srv, nid, <<delete(FALSE)>>, 1,
                      DeleteReturn(RemoteError("DeleteDefinition")))}
             \cup
             {Outcome(DeleteData(dd), srv \ {s}, nid, <<delete(TRUE)>>, 1,
                      DeleteReturn(NoErr)) :
                 s \in {x \in srv : x.Id = <<p.id>>}}

(***************************************************************************)
(* The lifecycle: the host plans attributes into the ResourceData and      *)
(* invokes one callback at a time.                                         *)
(***************************************************************************)
NoProbe == [stage |-> "off", config |-> NewData,
            expanded |-> [def |-> NoDefinition, project |-> "", err |-> NoErr],
            served |-> <<>>, flat |-> <<>>]

Init == /\ d = NewData
        /\ server = {}
        /\ nextId = FirstId
        /\ lastOp = "None"
        /\ pre = NewData
        /\ calls = <<>>
        /\ parsed = 0
        /\ result = NoErr
        /\ probe = NoProbe

Apply(op, o) == /\ d' = o.d
                /\ server' = o.server
                /\ nextId' = o.nextId
                /\ calls' = o.calls
                /\ parsed' = o.parsed
                /\ result' = o.result
                /\ lastOp' = op
                /\ pre' = d
                /\ UNCHANGED probe

HostStep(op, dd) == /\ d' = dd
                    /\ pre' = dd
                    /\ lastOp' = op
                    /\ calls' = <<>>
                    /\ parsed' = 0
                    /\ result' = NoErr
                    /\ UNCHANGED <<server, nextId, probe>>

\* the host writes the planned attributes (the Schema's) into the record
HostPlan == \E sc \in PlanScalars, rp \in PlanRepositories, vg \in PlanGroups :
                HostStep("Plan", [d EXCEPT !.name = sc.name,
                                           !.path = sc.path,
                                           !.agent_pool_name = sc.agent_pool_name,
                                           !.repository = rp,
                                           !.variable_groups = vg])

\* the host drops the identifier of a resource whose Delete returned nil
HostRemoveState == /\ lastOp = "Delete"
                   /\ ~result.isErr
                   /\ d.id # <<>>
                   /\ HostStep("Remove", [d EXCEPT !.id = <<>>])

\* Create is the callback of a resource that has no identifier yet (the
\* comment of lines 302-303: the ID is missing in the context of a create)
Create == /\ d.id = <<>>
          /\ \E o \in resourceBuildDefinitionCreate(d, server, nextId) : Apply("Create", o)

Read == \E o \in resourceBuildDefinitionRead(d, server, nextId) : Apply("Read", o)

Update == \E o \in resourceBuildDefinitionUpdate(d, server, nextId) : Apply("Update", o)

Delete == \E o \in resourceBuildDefinitionDelete(d, server, nextId) : Apply("Delete", o)

Next == \/ HostPlan
        \/ HostRemoveState
        \/ Create
        \/ Read
        \/ Update
        \/ Delete

Spec == Init /\ [][Next]_vars

(***************************************************************************)
(* The translation alone: expandBuildDefinition applied to a ResourceData, *)
(* a server object built from the expanded request, and                    *)
(* flattenBuildDefinition applied to that object.                          *)
(***************************************************************************)
ProbeRepos == {Repository(yml, name, type, branch, conn) :
                  yml \in {"ci.yml", "azure-pipelines.yml"},
                  name \in {"org/repo", "project-repo"},
                  type \in RepoTypes,
                  branch \in {"master", "develop"},
                  conn \in {"", "svc-1"}}

ProbeRepositories == {{}, {RepoGitHub, RepoTfsGit}} \cup {{r} : r \in ProbeRepos}

ProbeConfigs == {[NewData EXCEPT !.id = id, !.name = name, !.path = path,
                                 !.repository = rp, !.variable_groups = vg] :
                    id \in {<<>>, Itoa(FirstId)},
                    name \in {"", "ci-build"},
                    path \in {"\\", "\\team"},
                    rp \in ProbeRepositories,
                    vg \in PlanGroups}

InitPure == /\ d = NewData
            /\ server = {}
            /\ nextId = FirstId
            /\ lastOp = "None"
            /\ pre = NewData
            /\ calls = <<>>
            /\ parsed = 0
            /\ result = NoErr
            /\ \E c \in ProbeConfigs : probe = [NoProbe EXCEPT !.stage = "input", !.config = c]

ProbeExpand == /\ probe.stage = "input"
               /\ probe' = [probe EXCEPT !.stage = "expanded",
                                         !.expanded = expandBuildDefinition(probe.config)]
               /\ UNCHANGED <<d, server, nextId, lastOp, pre, calls, parsed, result>>

\* the server object of the round trip: the request, with an identifier when
\* the request carries none, its process in either shape
ProbeServe == /\ probe.stage = "expanded"
              /\ ~probe.expanded.err.isErr
              /\ LET request == probe.expanded.def[1]
                     object == IF request.Id = <<>>
                               THEN [request EXCEPT !.Id = <<FirstId>>]
                               ELSE request
                 IN  \E p \in ProcessShapes(request.Process.YamlFilename) :
                         probe' = [probe EXCEPT !.stage = "served",
                                                !.served = <<[object EXCEPT !.Process = p]>>]
              /\ UNCHANGED <<d, server, nextId, lastOp, pre, calls, parsed, result>>

ProbeFlatten == /\ probe.stage = "served"
                /\ probe' = [probe EXCEPT
                       !.stage = "flattened",
                       !.flat = <<flattenBuildDefinition(probe.config, probe.served[1],
                                                         probe.expanded.project)>>]
                /\ UNCHANGED <<d, server, nextId, lastOp, pre, calls, parsed, result>>

NextPure == \/ ProbeExpand
            \/ ProbeServe
            \/ ProbeFlatten

SpecPure == InitPure /\ [][NextPure]_vars

(***************************************************************************)
(* Properties.                                                             *)
(***************************************************************************)
Callbacks == {"Create", "Read", "Update", "Delete"}

Absent(dd) == dd.id = <<>>

Present(dd) == dd.id # <<>>

Succeeded == lastOp \in Callbacks /\ ~result.isErr

\* the definitions the remote API holds under the identifier of dd
Remote(dd) == {s \in server : ~Atoi(dd.id).err.isErr /\ s.Id = <<Atoi(dd.id).val>>}

\* C1, as stated: the resource is absent (empty identifier) or present; a
\* successful Create moves absent to present, a successful Read or Update
\* leaves a present resource present, and a successful Delete moves a
\* present resource to absent.
C1_DeleteMakesAbsent ==
    Succeeded =>
        /\ (lastOp = "Create" /\ Absent(pre) => Present(d))
        /\ (lastOp \in {"Read", "Update"} /\ Present(pre) => Present(d))
        /\ (lastOp = "Delete" /\ Present(pre) => Absent(d))

\* C1, amended: a successful Create moves absent to present, a successful
\* Read or Update leaves a present resource present, and a successful Delete
\* of a present resource removes the remote definition and leaves the
\* identifier of the record as it was (the callback does not clear it).
C1_Lifecycle ==
    Succeeded =>
        /\ (lastOp = "Create" /\ Absent(pre) => Present(d) /\ Remote(d) # {})
        /\ (lastOp \in {"Read", "Update"} /\ Present(pre) => Present(d) /\ d.id = pre.id)
        /\ (lastOp = "Delete" /\ Present(pre) => d.id = pre.id /\ Remote(d) = {})

C1_Witness == Succeeded /\ lastOp = "Delete" /\ Present(pre) /\ Present(d)

\* C2: Delete on a record whose identifier is empty returns nil, issues no
\* remote call and does not parse the identifier, whenever it is invoked.
C2_DeleteAbsentIsNoOp ==
    lastOp = "Delete" /\ Absent(pre) =>
        /\ ~result.isErr
        /\ calls = <<>>
        /\ parsed = 0
        /\ d = pre

\* Delete on an empty identifier, after the resource was created, deleted
\* and dropped by the host
C2_Witness == lastOp = "Delete" /\ Absent(pre) /\ nextId > FirstId /\ server = {}

\* the callback got past its local checks: one repository block for Create
\* and Update, an identifier that parses for Read and Delete
ReachesRemote ==
    \/ lastOp \in {"Create", "Update"} /\ ~RepositoryCountBad(pre.repository)
    \/ lastOp \in {"Read", "Delete"} /\ Present(pre)

\* C3, as stated: each of Create, Read, Update and Delete on a present
\* resource issues exactly one remote call per invocation.
C3_ExactlyOneCall == ReachesRemote => Len(calls) = 1

\* C3, amended: Read, Update and Delete on a present resource issue exactly
\* one remote call; Create issues CreateDefinition and, when that succeeds,
\* one GetDefinition that reads the definition back; no call follows a
\* failed call and no call is issued twice.
C3_Calls ==
    ReachesRemote =>
        /\ lastOp = "Read" => Len(calls) = 1 /\ calls[1].api = "GetDefinition"
        /\ lastOp = "Update" => Len(calls) = 1 /\ calls[1].api = "UpdateDefinition"
        /\ lastOp = "Delete" => Len(calls) = 1 /\ calls[1].api = "DeleteDefinition"
        /\ lastOp = "Create" =>
              /\ Len(calls) \in {1, 2}
              /\ calls[1].api = "CreateDefinition"
              /\ Len(calls) = 2 <=> calls[1].ok
              /\ Len(calls) = 2 => calls[2].api = "GetDefinition"
        /\ \A i \in 1..Len(calls) - 1 : calls[i].ok
        /\ \A i, j \in 1..Len(calls) : calls[i].api = calls[j].api => i = j

C3_Witness == lastOp = "Create" /\ ~result.isErr /\ Len(calls) = 2

\* C4, as stated: every error a callback returns is wrapped in a message
\* naming the phase; none is the bare underlying error.
C4_AlwaysWrapped ==
    lastOp \in Callbacks /\ result.isErr => result.msg # result.cause

\* the error came from Create's own expand or CreateDefinition
CreateOwnFailure == lastOp = "Create" /\ (calls = <<>> \/ ~calls[1].ok)

\* C4, amended: Create wraps a failure of Expand or of CreateDefinition in
\* "Error creating resource Build Definition: "; a failure of Create's
\* read-back and every failure of Read, Update and Delete is returned as the
\* bare underlying error.
C4_Wrapping ==
    lastOp \in Callbacks /\ result.isErr =>
        IF CreateOwnFailure
        THEN result.msg = ErrCreating \o result.cause /\ result.msg # result.cause
        ELSE result.msg = result.cause

C4_Witness == lastOp = "Create" /\ result.isErr /\ Len(calls) = 1 /\ ~calls[1].ok

\* C5: with no repository block or more than one, Expand fails with the
\* invalid-input error and returns no request, and Create and Update fail
\* without a remote call.
C5_BadRepositoryCount ==
    lastOp \in {"Create", "Update"} /\ Cardinality(pre.repository) # 1 =>
        /\ result.isErr
        /\ result.cause = ErrNoRepository
        /\ calls = <<>>
        /\ d = pre
        /\ expandBuildDefinition(pre).def = NoDefinition
        /\ expandBuildDefinition(pre).err.isErr

C5_Witness == /\ lastOp = "Update"
              /\ Cardinality(pre.repository) = 2
              /\ Present(pre)
              /\ result.isErr

\* C6: Expand, then Flatten of a server object built from the expanded
\* request, gives back name, path and the repository's repo_name, repo_type,
\* branch_name, yml_path and service_connection_id.
C6_RoundTrip ==
    probe.stage = "flattened" =>
        /\ probe.flat[1].name = probe.config.name
        /\ probe.flat[1].path = probe.config.path
        /\ probe.flat[1].repository = probe.config.repository

C6_Witness == /\ probe.stage = "flattened"
              /\ probe.served[1].Process.kind = "map"
              /\ probe.flat[1].name = "ci-build"
              /\ probe.flat[1].repository =
                     {Repository("azure-pipelines.yml", "project-repo", TfsGit, "develop", "svc-1")}

\* every spelling of "github" in upper and lower case letters
GithubSpellings == {<<a, b, c, e, f, g>> : a \in {"g", "G"}, b \in {"i", "I"},
                       c \in {"t", "T"}, e \in {"h", "H"}, f \in {"u", "U"},
                       g \in {"b", "B"}}

\* C7: the request's repository URL is "https://github.com/<repo_name>.git"
\* when repo_type spells github in any letter case, and empty otherwise.
C7_RepositoryUrl ==
    probe.stage \in {"expanded", "served", "flattened"} /\ ~probe.expanded.err.isErr =>
        \A r \in probe.config.repository :
            LET url == probe.expanded.def[1].Repository.Url
            IN  IF r.repo_type \in GithubSpellings
                THEN url = "https://github.com/" \o r.repo_name \o ".git"
                ELSE url = ""

C7_Witness == /\ probe.stage = "expanded"
              /\ ~probe.expanded.err.isErr
              /\ \E r \in probe.config.repository : r.repo_type = GitHub
              /\ probe.expanded.def[1].Repository.Url = "https://github.com/org/repo.git"

\* C8: the payload of every UpdateDefinition carries name, path, repository,
\* agent pool and variable groups of the current record, under the
\* identifier the record holds.
C8_UpdateSendsAll ==
    lastOp = "Update" /\ calls # <<>> =>
        /\ calls[1].api = "UpdateDefinition"
        /\ calls[1].Project = pre.project_id
        /\ LET sent == calls[1].Definition[1]
           IN  /\ sent.Name = pre.name
               /\ sent.Path = pre.path
               /\ sent.Queue.Name = pre.agent_pool_name
               /\ sent.Queue.Pool.Name = pre.agent_pool_name
               /\ {g.Id : g \in sent.VariableGroups} = pre.variable_groups
               /\ pre.repository =
                      {Repository(sent.Process.YamlFilename, sent.Repository.Name,
                                  sent.Repository.Type, sent.Repository.DefaultBranch,
                                  sent.Repository.Properties["connectedServiceId"])}
               /\ Present(pre) => /\ calls[1].DefinitionId = sent.Id
                                  /\ sent.Id # <<>>
                                  /\ Itoa(sent.Id[1]) = pre.id

\* an update that changes only the variable groups of the stored definition
C8_Witness == /\ lastOp = "Update"
              /\ ~result.isErr
              /\ pre.variable_groups = {1}
              /\ d.variable_groups = {1}
              /\ d.name = "ci-build"

\* C9: Flatten gives yml_path = f for a process that is a generic map with
\* yamlFilename = f and for a process that is a typed YAML process with
\* filename f.
C9_YmlPathEitherShape ==
    probe.stage = "flattened" =>
        LET process == probe.served[1].Process
        IN  \A r \in probe.flat[1].repository :
                /\ process.kind = "map" => r.yml_path = process.entries["yamlFilename"]
                /\ process.kind = "YamlProcess" => r.yml_path = process.YamlFilename

C9_Witness == /\ probe.stage = "flattened"
              /\ probe.served[1].Process.kind = "map"
              /\ probe.served[1].Process.entries["yamlFilename"] = "azure-pipelines.yml"
              /\ \E r \in probe.flat[1].repository : r.yml_path = "azure-pipelines.yml"

RemoteCallFailed == lastOp \in Callbacks /\ \E i \in 1..Len(calls) : ~calls[i].ok

\* C10, as stated: when a remote call of a callback fails, the callback
\* returns an error and the record is as it was before the callback.
C10_FailureLeavesRecord == RemoteCallFailed => result.isErr /\ d = pre

\* C10, amended: when a remote call of a callback fails, the callback
\* returns an error and the record is as it was before the callback, except
\* that a Create whose CreateDefinition succeeded and whose read-back failed
\* returns the error with the record flattened from the created definition,
\* identifier included.
C10_FailureFrame ==
    RemoteCallFailed =>
        /\ result.isErr
        /\ IF lastOp = "Create" /\ calls[1].ok
           THEN Absent(pre) /\ Present(d) /\ Remote(d) # {}
           ELSE d = pre

C10_Witness == /\ RemoteCallFailed
               /\ lastOp = "Update"
               /\ Present(pre)
               /\ d = pre

====
